---- MODULE Spec2Model ----
(***************************************************************************)
(* Model of ContinuousProfiler (src/index.ts): a controller that owns at   *)
(* most one session of the browser's sampling Profiler and rotates it on a *)
(* timer or when the engine reports that its sample buffer is full.        *)
(*                                                                         *)
(* One step of the model is one run-to-completion task of the event loop:  *)
(* a call of start() or stop() by the embedding page, a setTimeout         *)
(* callback, a samplebufferfull listener, or the continuation registered   *)
(* with .then() on the engine's stop() promise.                            *)
(***************************************************************************)
EXTENDS Integers, Sequences, FiniteSets, TLC

VARIABLES
    Profiler,     \* TRUE iff globalThis.Profiler is defined (index.ts:114)
    timeOrigin,   \* performance.timeOrigin
    now,          \* the reading of performance.now()
    initOptions,  \* the options handed to the constructor (0 = field omitted)
    options,      \* this.options
    session,      \* this.session
    profilers,    \* every engine instance constructed so far, by identity
    timers,       \* every setTimeout handle issued so far, by timeoutId
    stops,        \* every promise built by stop() on an active session
    callbacks,    \* the traces handed to this.callback, in order
    lastOp        \* what the last task was and what it returned to its caller

vars == <<Profiler, timeOrigin, now, initOptions, options, session,
          profilers, timers, stops, callbacks, lastOp>>

----------------------------------------------------------------------------
(* Bounds of the exploration. *)

MaxProfilers == 3      \* engine instances constructed in one behaviour
MaxNow == 2            \* last clock reading of the free-running clock
SimHorizon == 260      \* last clock reading of the simulated clock
StaleProfilers == 4    \* engine instances where late notifications are studied
StaleNow == 1          \* last clock reading there
LiveProfilers == 3     \* engine instances where delivery is studied
LiveNow == 1           \* last clock reading there

(* The environments explored: the time origin, and the option records the  *)
(* constructor is called with.  0 stands for an omitted (or zero) field,   *)
(* both of which are falsy in `(options && options.x) || default`.         *)
TimeOrigins == {1000}

InitOptionsSet ==
    { [sampleInterval |-> 10, collectInterval |-> 0],   \* 1500
      [sampleInterval |-> 3,  collectInterval |-> 1] }  \* 0.5 -> 1

SimOptions == [sampleInterval |-> 10, collectInterval |-> 100]

----------------------------------------------------------------------------
(* Math.round replaced by truncation *)
Round_truncate(n, d) == n \div d

(* Math.round on the quotient of two positive integers n / d: the nearest  *)
(* integer, a tie going up.                                                *)
Round(n, d) == (2 * n + d) \div (2 * d)

(* The constructor, index.ts:131-137. *)
DefaultSampleInterval == 10
DefaultCollectInterval == 10000

Constructor(o) ==
    LET sampleInterval ==
            IF o.sampleInterval # 0 THEN o.sampleInterval
                                    ELSE DefaultSampleInterval
        collectInterval ==
            IF o.collectInterval # 0 THEN o.collectInterval
                                     ELSE DefaultCollectInterval
    IN  [ sampleInterval  |-> sampleInterval,
          collectInterval |-> collectInterval,
          \* (collectInterval * 1.5) / sampleInterval = 3c / 2s
          maxBufferSize   |-> Round(3 * collectInterval, 2 * sampleInterval) ]

(* this.session === undefined: no engine (0), no timestamp, no timer. *)
undefined == [profiler |-> 0, start |-> 0, timeoutId |-> 0]

(* get supported(), index.ts:143-145 *)
supported == Profiler

(* get stopped(), index.ts:150-152 *)
stopped == session = undefined

----------------------------------------------------------------------------
(* The controller's mutable world as one value, so that the bodies of      *)
(* start() and stop() compose the way the rotation callbacks call them.    *)
(*   threw  : the call raised Error("Profiler is not supported.")          *)
(*   handle : the promise stop() returned; 0 is Promise.resolve(), k > 0   *)
(*            is stops[k]                                                  *)
World == [ session   |-> session,
           profilers |-> profilers,
           timers    |-> timers,
           stops     |-> stops,
           threw     |-> FALSE,
           handle    |-> 0 ]

(* new Profiler({sampleInterval, maxBufferSize}) at clock reading t, with  *)
(* the samplebufferfull listener of index.ts:179-182 attached.             *)
NewProfiler(t) ==
    [ state          |-> "running",   \* running -> stopping -> stopped
      sampleInterval |-> options.sampleInterval,
      maxBufferSize  |-> options.maxBufferSize,
      created        |-> t,
      listener       |-> TRUE,
      full           |-> FALSE ]      \* samplebufferfull already dispatched

(* setTimeout(cb, this.options.collectInterval) at clock reading t *)
NewTimer(t) ==
    [ state |-> "armed",              \* armed -> fired | cleared
      due   |-> t + options.collectInterval ]

(* clearTimeout that cancels nothing *)
clearTimeout_noop(ts, id) == ts

(* clearTimeout(id): cancels a pending timer, ignores any other id *)
clearTimeout(ts, id) ==
    [ts EXCEPT ![id].state = IF @ = "armed" THEN "cleared" ELSE @]

(* start() without the `if (this.session) return` guard *)
start_noGuard(w) ==
    IF ~Profiler THEN [w EXCEPT !.threw = TRUE]
    ELSE [w EXCEPT
            !.session   = [ start     |-> now,
                            profiler  |-> Len(w.profilers) + 1,
                            timeoutId |-> Len(w.timers) + 1 ],
            !.profilers = Append(@, NewProfiler(now)),
            !.timers    = Append(@, NewTimer(now)) ]

(* start() that re-arms the rotation timer of a session that already exists *)
start_resetTimer(w) ==
    IF ~Profiler THEN [w EXCEPT !.threw = TRUE]
    ELSE IF w.session # undefined
    THEN [w EXCEPT
            !.session.timeoutId = Len(w.timers) + 1,
            !.timers = Append(clearTimeout(@, w.session.timeoutId),
                              NewTimer(now)) ]
    ELSE [w EXCEPT
            !.session   = [ start     |-> now,
                            profiler  |-> Len(w.profilers) + 1,
                            timeoutId |-> Len(w.timers) + 1 ],
            !.profilers = Append(@, NewProfiler(now)),
            !.timers    = Append(@, NewTimer(now)) ]

(* start() without the `if (!Profiler) throw` test *)
start_unchecked(w) ==
    IF w.session # undefined THEN w
    ELSE [w EXCEPT
            !.session   = [ start     |-> now,
                            profiler  |-> Len(w.profilers) + 1,
                            timeoutId |-> Len(w.timers) + 1 ],
            !.profilers = Append(@, NewProfiler(now)),
            !.timers    = Append(@, NewTimer(now)) ]

(* start(), index.ts:158-183 *)
start(w) ==
    IF ~Profiler THEN [w EXCEPT !.threw = TRUE]
    ELSE IF w.session # undefined THEN w
    ELSE [w EXCEPT
            !.session   = [ start     |-> now,
                            profiler  |-> Len(w.profilers) + 1,
                            timeoutId |-> Len(w.timers) + 1 ],
            !.profilers = Append(@, NewProfiler(now)),
            !.timers    = Append(@, NewTimer(now)) ]

(* stop() that leaves this.session in place *)
stop_keepSession(w) ==
    IF w.session = undefined THEN [w EXCEPT !.handle = 0]
    ELSE [w EXCEPT
            !.stops     = Append(@, [ profiler |-> w.session.profiler,
                                      start    |-> w.session.start,
                                      state    |-> "pending" ]),
            !.profilers = [@ EXCEPT ![w.session.profiler].state = "stopping"],
            !.timers    = clearTimeout(@, w.session.timeoutId),
            !.handle    = Len(w.stops) + 1 ]

(* stop() without the `if (!this.session)` guard: with nothing to stop it  *)
(* still builds a promise and hands it back                                *)
stop_noGuard(w) ==
    [w EXCEPT
        !.stops     = Append(@, [ profiler |-> w.session.profiler,
                                  start    |-> w.session.start,
                                  state    |-> "pending" ]),
        !.profilers = IF w.session = undefined THEN @
                      ELSE [@ EXCEPT ![w.session.profiler].state = "stopping"],
        !.timers    = IF w.session = undefined THEN @
                      ELSE clearTimeout(@, w.session.timeoutId),
        !.session   = undefined,
        !.handle    = Len(w.stops) + 1 ]

(* stop() without the clearTimeout of index.ts:204 *)
stop_keepTimer(w) ==
    IF w.session = undefined THEN [w EXCEPT !.handle = 0]
    ELSE [w EXCEPT
            !.stops     = Append(@, [ profiler |-> w.session.profiler,
                                      start    |-> w.session.start,
                                      state    |-> "pending" ]),
            !.profilers = [@ EXCEPT ![w.session.profiler].state = "stopping"],
            !.session   = undefined,
            !.handle    = Len(w.stops) + 1 ]

(* stop(), index.ts:189-208, up to the return: the promise is created, the *)
(* timer cleared and the slot vacated.                                     *)
stop(w) ==
    IF w.session = undefined THEN [w EXCEPT !.handle = 0]
    ELSE [w EXCEPT
            !.stops     = Append(@, [ profiler |-> w.session.profiler,
                                      start    |-> w.session.start,
                                      state    |-> "pending" ]),
            !.profilers = [@ EXCEPT ![w.session.profiler].state = "stopping"],
            !.timers    = clearTimeout(@, w.session.timeoutId),
            !.session   = undefined,
            !.handle    = Len(w.stops) + 1 ]

(* A rotation callback that merely stops *)
rotate_stopOnly(w) == stop(w)

(* A rotation callback that calls this.start() before this.stop() *)
rotate_startFirst(w) == stop(start(w))

(* The body shared by the timer callback (index.ts:173-176) and the        *)
(* samplebufferfull listener (index.ts:179-182): this.stop(); this.start() *)
rotate(w) == start(stop(w))

Install(w) ==
    /\ session' = w.session
    /\ profilers' = w.profilers
    /\ timers' = w.timers
    /\ stops' = w.stops

Op(name, w) ==
    [op |-> name, threw |-> w.threw, handle |-> w.handle]

(* start() constructs an engine only with the capability and a free slot *)
Constructs(w) == Profiler /\ w.session = undefined

----------------------------------------------------------------------------
Init ==
    /\ Profiler \in BOOLEAN
    /\ timeOrigin \in TimeOrigins
    /\ now = 0
    /\ initOptions \in InitOptionsSet
    /\ options = Constructor(initOptions)
    /\ session = undefined
    /\ profilers = <<>>
    /\ timers = <<>>
    /\ stops = <<>>
    /\ callbacks = <<>>
    /\ lastOp = [op |-> "new", threw |-> FALSE, handle |-> 0]

(* The page calls start(); n bounds the engines constructed. *)
CallStartIn(n) ==
    /\ Constructs(World) => Len(profilers) < n
    /\ LET w == start(World) IN
         /\ Install(w)
         /\ lastOp' = Op("start", w)
    /\ UNCHANGED <<Profiler, timeOrigin, now, initOptions, options, callbacks>>

CallStart == CallStartIn(MaxProfilers)

(* The page calls stop(). *)
CallStop ==
    /\ LET w == stop(World) IN
         /\ Install(w)
         /\ lastOp' = Op("stop", w)
    /\ UNCHANGED <<Profiler, timeOrigin, now, initOptions, options, callbacks>>

(* The timeout of timer id elapses and its callback runs. *)
TimerFireIn(id, n) ==
    /\ timers[id].state = "armed"
    /\ now >= timers[id].due
    /\ Len(profilers) < n
    /\ LET w == rotate([World EXCEPT !.timers[id].state = "fired"]) IN
         /\ Install(w)
         /\ lastOp' = Op("timer", w)
    /\ UNCHANGED <<Profiler, timeOrigin, now, initOptions, options, callbacks>>

TimerFire(id) == TimerFireIn(id, MaxProfilers)

(* Engine e dispatches samplebufferfull (once: its buffer fills once); the *)
(* event may already be queued when stop() is called on e, so it can be    *)
(* delivered until the engine's stop has resolved.                         *)
BufferFullIn(e, n) ==
    /\ profilers[e].listener
    /\ ~profilers[e].full
    /\ profilers[e].state # "stopped"
    /\ Len(profilers) < n
    /\ LET w == rotate([World EXCEPT !.profilers[e].full = TRUE]) IN
         /\ Install(w)
         /\ lastOp' = Op("bufferfull", w)
    /\ UNCHANGED <<Profiler, timeOrigin, now, initOptions, options, callbacks>>

BufferFull(e) == BufferFullIn(e, MaxProfilers)

(* The trace stamped with the start of whatever this.session holds when    *)
(* the engine's stop resolves, instead of the `start` snapshot of line 194 *)
Trace_sessionStart(p, end) ==
    [ profiler |-> p.profiler,
      start    |-> timeOrigin + session.start,
      end      |-> timeOrigin + end ]

(* The trace handed to the callback, index.ts:196-202: the engine's own    *)
(* trace (named by the engine) with the absolute bounds assigned to it.    *)
Trace(p, end) ==
    [ profiler |-> p.profiler,
      start    |-> timeOrigin + p.start,
      end      |-> timeOrigin + end ]

(* A continuation that fulfils the returned promise without the callback *)
StopThen_noCallback(k) ==
    /\ stops[k].state = "pending"
    /\ stops' = [stops EXCEPT ![k].state = "fulfilled"]
    /\ profilers' = [profilers EXCEPT ![stops[k].profiler].state = "stopped"]
    /\ lastOp' = [op |-> "then", threw |-> FALSE, handle |-> 0]
    /\ UNCHANGED <<Profiler, timeOrigin, now, initOptions, options, session,
                   timers, callbacks>>

(* A continuation that drops the trace of a session that has a successor *)
StopThen_dropStale(k) ==
    /\ stops[k].state = "pending"
    /\ callbacks' = IF session = undefined
                    THEN Append(callbacks, Trace(stops[k], now))
                    ELSE callbacks
    /\ stops' = [stops EXCEPT ![k].state = "fulfilled"]
    /\ profilers' = [profilers EXCEPT ![stops[k].profiler].state = "stopped"]
    /\ lastOp' = [op |-> "then", threw |-> FALSE, handle |-> 0]
    /\ UNCHANGED <<Profiler, timeOrigin, now, initOptions, options, session,
                   timers>>

(* A continuation that waits for the continuations of all earlier stops *)
StopThen_inOrder(k) ==
    /\ stops[k].state = "pending"
    /\ \A j \in 1..(k - 1) : stops[j].state = "fulfilled"
    /\ callbacks' = Append(callbacks, Trace(stops[k], now))
    /\ stops' = [stops EXCEPT ![k].state = "fulfilled"]
    /\ profilers' = [profilers EXCEPT ![stops[k].profiler].state = "stopped"]
    /\ lastOp' = [op |-> "then", threw |-> FALSE, handle |-> 0]
    /\ UNCHANGED <<Profiler, timeOrigin, now, initOptions, options, session,
                   timers>>

(* The engine's stop() promise of stops[k] resolves and the continuation   *)
(* of index.ts:195-203 runs; the promise stop() returned is then fulfilled *)
StopThen(k) ==
    /\ stops[k].state = "pending"
    /\ callbacks' = Append(callbacks, Trace(stops[k], now))
    /\ stops' = [stops EXCEPT ![k].state = "fulfilled"]
    /\ profilers' = [profilers EXCEPT ![stops[k].profiler].state = "stopped"]
    /\ lastOp' = [op |-> "then", threw |-> FALSE, handle |-> 0]
    /\ UNCHANGED <<Profiler, timeOrigin, now, initOptions, options, session,
                   timers>>

(* Time passes, up to reading t; timers may fire late, as setTimeout       *)
(* allows.                                                                 *)
TickTo(t) ==
    /\ now < t
    /\ now' = now + 1
    /\ lastOp' = [op |-> "tick", threw |-> FALSE, handle |-> 0]
    /\ UNCHANGED <<Profiler, timeOrigin, initOptions, options, session,
                   profilers, timers, stops, callbacks>>

Tick == TickTo(MaxNow)

Next ==
    \/ CallStart
    \/ CallStop
    \/ \E id \in 1..Len(timers) : TimerFire(id)
    \/ \E e \in 1..Len(profilers) : BufferFull(e)
    \/ \E k \in 1..Len(stops) : StopThen(k)
    \/ Tick

Spec == Init /\ [][Next]_vars

----------------------------------------------------------------------------
(* The scenario of a simulated clock: the page constructs the controller   *)
(* with sampleInterval 10 and collectInterval 100 and only ever calls      *)
(* start(); no engine reports a full buffer; the clock advances in sample  *)
(* periods and never past a timer that is due, so every timer fires at the *)
(* reading it was set for.                                                 *)
InitSim ==
    /\ Profiler = TRUE
    /\ timeOrigin \in TimeOrigins
    /\ now = 0
    /\ initOptions = SimOptions
    /\ options = Constructor(initOptions)
    /\ session = undefined
    /\ profilers = <<>>
    /\ timers = <<>>
    /\ stops = <<>>
    /\ callbacks = <<>>
    /\ lastOp = [op |-> "new", threw |-> FALSE, handle |-> 0]

TickSim ==
    /\ now + options.sampleInterval <= SimHorizon
    /\ \A id \in 1..Len(timers) :
          timers[id].state = "armed" => now < timers[id].due
    /\ now' = now + options.sampleInterval
    /\ lastOp' = [op |-> "tick", threw |-> FALSE, handle |-> 0]
    /\ UNCHANGED <<Profiler, timeOrigin, initOptions, options, session,
                   profilers, timers, stops, callbacks>>

NextSim ==
    \/ CallStart
    \/ \E id \in 1..Len(timers) : TimerFire(id)
    \/ \E k \in 1..Len(stops) : StopThen(k)
    \/ TickSim

SpecSim == InitSim /\ [][NextSim]_vars

----------------------------------------------------------------------------
(* The same controller with room for a fourth engine and a short clock: a  *)
(* session created by a buffer-full rotation can then itself be rotated    *)
(* while an engine older than its predecessor is still stopping.           *)
InitStale ==
    /\ Profiler = TRUE
    /\ timeOrigin \in TimeOrigins
    /\ now = 0
    /\ initOptions = [sampleInterval |-> 3, collectInterval |-> 1]
    /\ options = Constructor(initOptions)
    /\ session = undefined
    /\ profilers = <<>>
    /\ timers = <<>>
    /\ stops = <<>>
    /\ callbacks = <<>>
    /\ lastOp = [op |-> "new", threw |-> FALSE, handle |-> 0]

NextStale ==
    \/ CallStartIn(StaleProfilers)
    \/ CallStop
    \/ \E id \in 1..Len(timers) : TimerFireIn(id, StaleProfilers)
    \/ \E e \in 1..Len(profilers) : BufferFullIn(e, StaleProfilers)
    \/ \E k \in 1..Len(stops) : StopThen(k)
    \/ TickTo(StaleNow)

SpecStale == InitStale /\ [][NextStale]_vars

----------------------------------------------------------------------------
(* Delivery.  The k-th stop, once initiated, resolves. *)
Resolve(k) == k \in 1..Len(stops) /\ StopThen(k)

(* The controller on an engine whose every stop() eventually resolves: the *)
(* promise settles and the event loop then runs its continuation.          *)
NextLive ==
    \/ CallStartIn(LiveProfilers)
    \/ CallStop
    \/ \E id \in 1..Len(timers) : TimerFireIn(id, LiveProfilers)
    \/ \E e \in 1..Len(profilers) : BufferFullIn(e, LiveProfilers)
    \/ \E k \in 1..Len(stops) : StopThen(k)
    \/ TickTo(LiveNow)

SpecLive ==
    /\ InitStale
    /\ [][NextLive]_vars
    /\ \A k \in 1..LiveProfilers : WF_vars(Resolve(k))

(* The controller on an engine whose first stop() never settles, while     *)
(* every later one eventually resolves.                                    *)
NextHang ==
    \/ CallStartIn(LiveProfilers)
    \/ CallStop
    \/ \E id \in 1..Len(timers) : TimerFireIn(id, LiveProfilers)
    \/ \E e \in 1..Len(profilers) : BufferFullIn(e, LiveProfilers)
    \/ \E k \in 2..Len(stops) : StopThen(k)
    \/ TickTo(LiveNow)

SpecHang ==
    /\ InitStale
    /\ [][NextHang]_vars
    /\ \A k \in 2..LiveProfilers : WF_vars(Resolve(k))

----------------------------------------------------------------------------
(* What a no-op call must leave alone: the controller and its world. *)
ctl == <<session, profilers, timers, stops, callbacks>>

(* Engines constructed whose stop() has not been initiated. *)
Live == {e \in 1..Len(profilers) : profilers[e].state = "running"}

(* C1: in every reachable state at most one engine instance is live       *)
(* (constructed, stop() not yet initiated); the session slot holds exactly *)
(* that instance when there is one and is undefined otherwise.             *)
C1_AtMostOneSession ==
    /\ Cardinality(Live) <= 1
    /\ session # undefined => Live = {session.profiler}
    /\ session = undefined => Live = {}

(* A rotation has replaced a stopping engine by a live one. *)
C1_Witness ==
    /\ lastOp.op = "bufferfull"
    /\ session # undefined
    /\ session.profiler >= 2
    /\ \E e \in 1..Len(profilers) : profilers[e].state = "stopping"

(* C2: start() on an existing session changes nothing: same start          *)
(* timestamp, same engine, same pending timer, no engine constructed, no   *)
(* timer scheduled, no listener registered; it returns normally.           *)
C2_StartIdempotent ==
    [][CallStart /\ session # undefined
         => UNCHANGED ctl /\ ~lastOp'.threw]_vars

(* start() was the last task and the session is older than this call. *)
C2_Witness ==
    /\ lastOp.op = "start"
    /\ session # undefined
    /\ session.start < now
    /\ timers[session.timeoutId].state = "armed"

(* C3: stop() without a session returns an already completed handle,       *)
(* changes no state, initiates no engine stop and causes no callback; so   *)
(* no engine is ever stopped twice and none delivers two callbacks.        *)
C3_StopIdempotent ==
    [][/\ CallStop /\ session = undefined
            => UNCHANGED ctl /\ lastOp'.handle = 0
       /\ \A j, k \in 1..Len(stops') :
            stops'[j].profiler = stops'[k].profiler => j = k]_vars

(* stop() was called with nothing to stop, after a session was stopped and *)
(* delivered its one trace.                                                *)
C3_Witness ==
    /\ lastOp.op = "stop"
    /\ lastOp.handle = 0
    /\ Len(stops) = 1
    /\ Len(callbacks) = 1
    /\ Len(profilers) = 1

(* C4: the callback is invoked at most once per engine session, only for a *)
(* session whose stop was initiated and whose engine stop has resolved,    *)
(* with that session's own trace; callbacks never outnumber stops.         *)
C4_OneCallbackPerSession ==
    /\ Len(callbacks) <= Len(stops)
    /\ \A i, j \in 1..Len(callbacks) :
          callbacks[i].profiler = callbacks[j].profiler => i = j
    /\ \A i \in 1..Len(callbacks) :
          /\ callbacks[i].profiler \in 1..Len(profilers)
          /\ profilers[callbacks[i].profiler].state = "stopped"
          /\ \E k \in 1..Len(stops) :
                /\ stops[k].profiler = callbacks[i].profiler
                /\ stops[k].state = "fulfilled"

(* Two sessions have delivered while a third stop is still in flight. *)
C4_Witness ==
    /\ Len(callbacks) = 2
    /\ Len(stops) = 3
    /\ callbacks[1].profiler # callbacks[2].profiler

(* C5: under the simulated clock, with collectInterval C = 100, no         *)
(* buffer-full notification and no stop() by the page, session e is        *)
(* created (e - 1) * C after the first, each with a fresh timer of C; 250  *)
(* ms after start() exactly two rotations have happened, the third session *)
(* is active, and once both engine stops have resolved exactly two         *)
(* callbacks have been made.                                               *)
C5_TimerCadence ==
    Len(profilers) >= 1 =>
      LET first == profilers[1].created
          C == options.collectInterval
          due == timers[session.timeoutId].due
      IN  /\ C = 100
          /\ \A e \in 1..Len(profilers) :
                profilers[e].created = first + (e - 1) * C
          /\ session # undefined
          /\ session.profiler = Len(profilers)
          /\ timers[session.timeoutId].state = "armed"
          /\ due = session.start + C
          /\ now < due => Len(profilers) = 1 + (now - first) \div C
          /\ now = first + 250 =>
                /\ Len(profilers) = 3
                /\ Len(stops) = 2
                /\ session.profiler = 3
                /\ Len(callbacks) <= 2
                /\ (\A k \in 1..Len(stops) : stops[k].state = "fulfilled")
                      => Len(callbacks) = 2

(* 250 ms after start(): two traces delivered, the third session running. *)
C5_Witness ==
    /\ Len(profilers) = 3
    /\ now = profilers[1].created + 250
    /\ Len(callbacks) = 2
    /\ session.profiler = 3

(* C6: every trace is delivered with start = timeOrigin + S, S the clock   *)
(* reading at which start() created its session, whatever the slot holds   *)
(* by then, and end = timeOrigin + E, E the clock reading when the         *)
(* engine's stop resolved; so start <= end.                                *)
C6_TimestampNormalization ==
    [][Len(callbacks') > Len(callbacks) =>
         LET t == callbacks'[Len(callbacks')] IN
           /\ Len(callbacks') = Len(callbacks) + 1
           /\ SubSeq(callbacks', 1, Len(callbacks)) = callbacks
           /\ t.start = timeOrigin + profilers[t.profiler].created
           /\ t.end = timeOrigin + now
           /\ t.start <= t.end]_vars

(* A trace was delivered after its session was replaced by a later one. *)
C6_Witness ==
    \E i \in 1..Len(callbacks) :
      /\ callbacks[i].start < callbacks[i].end
      /\ session # undefined
      /\ session.profiler > callbacks[i].profiler
      /\ timeOrigin + session.start > callbacks[i].start
      /\ timeOrigin + session.start < callbacks[i].end

(* C7: the traces of a session and of the session it was rotated into do   *)
(* not overlap and increase: the earlier trace starts before the later one *)
(* and ends no later than the later one starts.  Under the simulated clock *)
(* every session but the first is created by the rotation of the one       *)
(* before it.                                                              *)
C7_NonOverlapping ==
    \A i, j \in 1..Len(callbacks) :
      callbacks[j].profiler = callbacks[i].profiler + 1 =>
        /\ callbacks[i].start < callbacks[j].start
        /\ callbacks[i].end <= callbacks[j].start

(* C8: after every step, a promise returned by stop() on an active session *)
(* is fulfilled only if the callback has been invoked for that session;    *)
(* stop() on an active session returns that pending promise, and stop()    *)
(* with no session returns the completed one and invokes no callback.      *)
C8_HandleAfterCallback ==
    [][/\ \A k \in 1..Len(stops') :
            stops'[k].state = "fulfilled" =>
              \E i \in 1..Len(callbacks') :
                callbacks'[i].profiler = stops'[k].profiler
       /\ CallStop =>
            IF session = undefined
            THEN lastOp'.handle = 0 /\ callbacks' = callbacks
            ELSE /\ lastOp'.handle = Len(stops) + 1
                 /\ stops'[lastOp'.handle].state = "pending"
                 /\ stops'[lastOp'.handle].profiler = session.profiler]_vars

(* A promise returned by stop() has been fulfilled while another one is    *)
(* still pending.                                                          *)
C8_Witness ==
    /\ \E k \in 1..Len(stops) : stops[k].state = "fulfilled"
    /\ \E k \in 1..Len(stops) : stops[k].state = "pending"
    /\ Len(callbacks) = 1

(* C9: without the engine capability every start() throws and leaves the   *)
(* controller as it was: no session, stopped, no engine, no timer;         *)
(* supported is false and stop() returns the completed promise.            *)
C9_Unsupported ==
    ~Profiler =>
      /\ ~supported
      /\ stopped
      /\ session = undefined
      /\ profilers = <<>>
      /\ timers = <<>>
      /\ stops = <<>>
      /\ callbacks = <<>>
      /\ lastOp.op = "start" => lastOp.threw
      /\ lastOp.op = "stop" => lastOp.handle = 0 /\ ~lastOp.threw

(* start() has just thrown in an environment without the capability. *)
C9_Witness ==
    /\ ~Profiler
    /\ lastOp.op = "start"
    /\ lastOp.threw
    /\ now > 0

(* C10: the options are those computed at construction, maxBufferSize      *)
(* being (collectInterval * 1.5) / sampleInterval rounded to the nearest   *)
(* integer (1500 for 10 and 10000), and every engine constructed, also by  *)
(* a rotation, was given that sampleInterval and that maxBufferSize.       *)
C10_BufferSize ==
    LET s == IF initOptions.sampleInterval = 0 THEN 10
             ELSE initOptions.sampleInterval
        c == IF initOptions.collectInterval = 0 THEN 10000
             ELSE initOptions.collectInterval
        m == options.maxBufferSize
    IN  /\ options.sampleInterval = s
        /\ options.collectInterval = c
        \* m - 1/2 <= 3c / 2s < m + 1/2
        /\ (2 * m - 1) * s <= 3 * c
        /\ 3 * c < (2 * m + 1) * s
        /\ (s = 10 /\ c = 10000) => m = 1500
        /\ \A e \in 1..Len(profilers) :
              /\ profilers[e].sampleInterval = s
              /\ profilers[e].maxBufferSize = m

(* A rotation has constructed an engine with the default buffer of 1500. *)
C10_Witness ==
    /\ lastOp.op = "bufferfull"
    /\ session # undefined
    /\ session.profiler >= 2
    /\ profilers[session.profiler].maxBufferSize = 1500
    /\ profilers[session.profiler].sampleInterval = 10

(* A task that runs a rotation callback: a timer or a samplebufferfull. *)
RotationStep ==
    \/ \E id \in 1..Len(timers) : TimerFire(id)
    \/ \E e \in 1..Len(profilers) : BufferFull(e)

(* C11: when stop() returns on an active session, before the engine's stop *)
(* has resolved, the slot is undefined (stopped is true) and the session's *)
(* timer is cancelled; a start() issued while that stop is still in flight *)
(* creates a new session at once.                                          *)
C11_StopReleasesSlot ==
    [][/\ CallStop /\ session # undefined =>
            /\ session' = undefined
            /\ stopped'
            /\ timers'[session.timeoutId].state = "cleared"
            /\ profilers'[session.profiler].state = "stopping"
            /\ stops'[lastOp'.handle].state = "pending"
       /\ (/\ CallStart
           /\ session = undefined
           /\ \E k \in 1..Len(stops) : stops[k].state = "pending") =>
            /\ ~stopped'
            /\ session'.profiler = Len(profilers) + 1
            /\ session'.start = now
            /\ profilers'[session'.profiler].state = "running"
            /\ stops' = stops]_vars

(* start() has just created a session while the stop of the one before is  *)
(* still in flight.                                                        *)
C11_Witness ==
    /\ lastOp.op = "start"
    /\ session # undefined
    /\ session.profiler = 2
    /\ session.start = now
    /\ stops[1].state = "pending"
    /\ timers[1].state = "cleared"

(* C12: a rotation of a session, by timer or buffer-full, is one task: it  *)
(* initiates the old engine's stop and then constructs the new engine, so  *)
(* that when the task ends the new engine runs in the slot while the old   *)
(* engine's stop is unresolved and its trace undelivered.                  *)
C12_RotationOrdering ==
    [][RotationStep /\ session # undefined =>
         LET old == session.profiler
             new == Len(profilers) + 1
         IN  /\ Len(profilers') = new
             /\ session'.profiler = new
             /\ profilers'[new].state = "running"
             /\ profilers'[old].state = "stopping"
             /\ Len(stops') = Len(stops) + 1
             /\ stops'[Len(stops')].profiler = old
             /\ stops'[Len(stops')].state = "pending"
             /\ callbacks' = callbacks
             /\ \A i \in 1..Len(callbacks') :
                   callbacks'[i].profiler # old]_vars

(* A timer has just rotated the first session into the second. *)
C12_Witness ==
    /\ lastOp.op = "timer"
    /\ session.profiler = 2
    /\ profilers[1].state = "stopping"
    /\ stops[1].state = "pending"
    /\ callbacks = <<>>

(* C13: a samplebufferfull of the active engine, before its timer fires,   *)
(* initiates that engine's stop, cancels its timer and starts exactly one  *)
(* new session; no timer but the current session's ever fires; and a       *)
(* session started by a buffer-full rotation is next rotated only by its   *)
(* own timer or its own samplebufferfull.                                  *)
C13_BufferFullRotatesOnce ==
    [][/\ \A e \in 1..Len(profilers) :
            BufferFullIn(e, StaleProfilers) /\ session.profiler = e =>
              /\ profilers'[e].state = "stopping"
              /\ timers'[session.timeoutId].state = "cleared"
              /\ Len(stops') = Len(stops) + 1
              /\ Len(profilers') = Len(profilers) + 1
              /\ session'.profiler = Len(profilers')
       /\ \A id \in 1..Len(timers) :
            TimerFireIn(id, StaleProfilers) => id = session.timeoutId
       /\ (/\ session.profiler >= 2
           /\ profilers[session.profiler - 1].full
           /\ session' # session
           /\ lastOp'.op \in {"timer", "bufferfull"}) =>
            \/ TimerFireIn(session.timeoutId, StaleProfilers)
            \/ BufferFullIn(session.profiler, StaleProfilers)]_vars

(* Timers scheduled, neither cancelled nor fired. *)
Armed == {id \in 1..Len(timers) : timers[id].state = "armed"}

(* C14: in every reachable state exactly one rotation timer is armed when  *)
(* a session is present, and it is the one stored in the session; none is  *)
(* armed when the slot is empty; so no timer of a superseded or stopped    *)
(* session can fire.                                                       *)
C14_TimerBookkeeping ==
    /\ session # undefined => Armed = {session.timeoutId}
    /\ session = undefined => Armed = {}
    /\ Cardinality(Armed) = IF session = undefined THEN 0 ELSE 1

(* One timer was cancelled by a stop, one has fired, the third is armed. *)
C14_Witness ==
    /\ session # undefined
    /\ \E id \in 1..Len(timers) : timers[id].state = "cleared"
    /\ \E id \in 1..Len(timers) : timers[id].state = "fired"
    /\ timers[session.timeoutId].state = "armed"

(* C15: a samplebufferfull delivered by an engine that is not the active   *)
(* session's engine leaves the controller unchanged: it stops no session,  *)
(* constructs no engine and arms no timer.                                 *)
C15_StaleTriggerNoOp ==
    [][\A e \in 1..Len(profilers) :
         BufferFull(e) /\ e # session.profiler =>
           /\ session' = session
           /\ Len(profilers') = Len(profilers)
           /\ timers' = timers
           /\ stops' = stops]_vars

(* C18: while the slot is empty, which it is from a stop() by the page     *)
(* until the page's next start(), no task other than that start() makes    *)
(* stopped false or constructs an engine.                                  *)
C18_StopIsFinal ==
    [][session = undefined /\ ~CallStart =>
         /\ stopped'
         /\ Len(profilers') = Len(profilers)]_vars

(* C19: once a session is present, a session is present after every task  *)
(* until the page calls stop(): rotations by timer or buffer-full replace  *)
(* the session within one task and nothing else vacates the slot.          *)
C19_ContinuousCoverage ==
    [][~stopped /\ ~CallStop => ~stopped']_vars

(* Two rotations after the page's start(), the third session is present. *)
C19_Witness ==
    /\ lastOp.op \in {"timer", "bufferfull"}
    /\ session.profiler = 3
    /\ Len(stops) = 2
    /\ \E id \in 1..Len(timers) : timers[id].state = "fired"
    /\ \E e \in 1..Len(profilers) : profilers[e].full

(* The k-th stop has run its continuation: callback invoked with the trace *)
(* of its engine, returned promise fulfilled.                              *)
Delivered(k) ==
    /\ k <= Len(stops)
    /\ stops[k].state = "fulfilled"
    /\ \E i \in 1..Len(callbacks) : callbacks[i].profiler = stops[k].profiler

(* C16: if every engine stop eventually resolves, every session whose stop *)
(* has been initiated, by the page or by a rotation, eventually has its    *)
(* callback invoked and its promise fulfilled, also when a newer session   *)
(* is already running.                                                     *)
C16_DeliveryLiveness ==
    \A k \in 1..LiveProfilers : (Len(stops) >= k) ~> Delivered(k)

(* A trace has just been delivered while the session that replaced its own *)
(* is running.                                                             *)
C16_Witness ==
    /\ lastOp.op = "then"
    /\ session # undefined
    /\ Len(callbacks) >= 1
    /\ callbacks[Len(callbacks)].profiler < session.profiler
    /\ callbacks[Len(callbacks)].end > timeOrigin + session.start

(* C17: if the engine stop of one session (the first) never settles, its   *)
(* callback is never invoked and its promise stays pending, yet the slot   *)
(* is free: start() with an empty slot still creates a session, and every  *)
(* later stop is eventually delivered.                                     *)
C17_UnresolvedStopIsolated ==
    /\ [](Len(stops) >= 1 =>
            /\ stops[1].state = "pending"
            /\ \A i \in 1..Len(callbacks) :
                  callbacks[i].profiler # stops[1].profiler)
    /\ [][(/\ Len(stops) >= 1
           /\ session = undefined
           /\ CallStartIn(LiveProfilers)) => ~stopped']_vars
    /\ \A k \in 2..LiveProfilers : (Len(stops) >= k) ~> Delivered(k)

(* Two later sessions have delivered their traces while the first stop is  *)
(* still pending.                                                          *)
C17_Witness ==
    /\ Len(stops) = 3
    /\ stops[1].state = "pending"
    /\ Delivered(2)
    /\ Delivered(3)
    /\ Len(callbacks) = 2

====
